---- MODULE Spec2Model ----
(***************************************************************************)
(* A model of twoslash's directive scanning and position reconciliation:   *)
(* utils.ts (mergeRanges, removeCodeRanges, createPositionConverter,       *)
(* resolveNodePositions, the find* scanners) and core.ts (twoslasher).     *)
(*                                                                         *)
(* Text is a sequence of one-character strings.  Offsets are 0-based as   *)
(* in the source; a Range [s, e] of the source is the tuple <<s, e>>.      *)
(***************************************************************************)
EXTENDS Integers, Sequences, FiniteSets, TLC

VARIABLES
    code,          \* twoslasher's `code` argument / removeCodeRanges' input text
    outputCode,    \* `outputCode` (core.ts 328, utils 217)
    removals,      \* meta.removals
    argRemovals,   \* the `removals` argument of the running removeCodeRanges call
    merged,        \* value of mergeRanges(removals) at utils 214
    ranges,        \* `ranges` of removeCodeRanges (merged, descending)
    ri,            \* position of the for-of loop of utils 218 in `ranges`
    nodes,         \* `nodes`
    resolved,      \* the list returned by resolveNodePositions
    pc,            \* position of the run
    options,       \* twoslasher's `extension` and `options` arguments (with createOptions)
    meta,          \* `meta` but its removals
    error,         \* the error thrown out of the run, NoError while there is none
    backend,       \* the calls made to the TypeScript environment, in order
    quickInfo      \* the offsets the language service had quick info for

eraseVars == <<argRemovals, merged, ranges, ri>>

runVars == <<options, meta, error, backend, quickInfo>>

vars == <<code, outputCode, removals, eraseVars, nodes, resolved, pc, runVars>>

----------------------------------------------------------------------------
(* Bounds of the model *)

MaxLen == 3
MaxRanges == 2
MaxNodeLen == 1
MaxResNodes == 2
MaxCutLines == 4
MaxLines == 3
MaxMarkerLines == 2
MaxStaleTargets == 2
MaxSplitLines == 3
MaxRecordLen == 3

----------------------------------------------------------------------------
(* Generic helpers *)

Min(a, b) == IF a < b THEN a ELSE b
Max(a, b) == IF a > b THEN a ELSE b

SeqsUpTo(S, n) == UNION {[1..k -> S] : k \in 0..n}

RECURSIVE Reverse(_)
Reverse(s) == IF s = <<>> THEN <<>> ELSE Append(Reverse(Tail(s)), Head(s))

\* String.prototype.slice(a, b) for 0 <= a, 0 <= b
slice(s, a, b) == SubSeq(s, Min(a, Len(s)) + 1, Min(b, Len(s)))

NL == "\n"

----------------------------------------------------------------------------
(* utils: isInRange, isInRanges, mergeRanges *)

isInRange(index, range) == range[1] <= index /\ index <= range[2]

isInRanges(index, rs) == \E k \in 1..Len(rs) : isInRange(index, rs[k])

\* comparator of Array.prototype.sort: (a, b) => a[0] - b[0], or b[0] - a[0]
cmpRange(a, b, desc) == IF desc THEN b[1] - a[1] ELSE a[1] - b[1]

\* Array.prototype.sort is stable: r goes after every element not greater
RECURSIVE insertRange(_, _, _)
insertRange(sorted, r, desc) ==
    IF sorted = <<>> THEN <<r>>
    ELSE IF cmpRange(Head(sorted), r, desc) <= 0
         THEN <<Head(sorted)>> \o insertRange(Tail(sorted), r, desc)
         ELSE <<r>> \o sorted

RECURSIVE sortRangesFrom(_, _, _)
sortRangesFrom(rest, sorted, desc) ==
    IF rest = <<>> THEN sorted
    ELSE sortRangesFrom(Tail(rest), insertRange(sorted, Head(rest), desc), desc)

sortRanges(rs, desc) == sortRangesFrom(rs, <<>>, desc)

\* mergeLoop with `last[1] > range[0]`: touching ranges are left apart
RECURSIVE mergeLoopStrict(_, _)
mergeLoopStrict(rest, acc) ==
    IF rest = <<>> THEN acc
    ELSE LET range == Head(rest)
             n == Len(acc)
         IN  IF n > 0 /\ acc[n][2] > range[1]
             THEN mergeLoopStrict(Tail(rest),
                            [acc EXCEPT ![n] = <<acc[n][1], Max(acc[n][2], range[2])>>])
             ELSE mergeLoopStrict(Tail(rest), Append(acc, range))

RECURSIVE mergeLoop(_, _)
mergeLoop(rest, acc) ==
    IF rest = <<>> THEN acc
    ELSE LET range == Head(rest)
             n == Len(acc)
         IN  IF n > 0 /\ acc[n][2] >= range[1]
             THEN mergeLoop(Tail(rest),
                            [acc EXCEPT ![n] = <<acc[n][1], Max(acc[n][2], range[2])>>])
             ELSE mergeLoop(Tail(rest), Append(acc, range))

mergeRanges(rs) == mergeLoop(sortRanges(rs, FALSE), <<>>)

----------------------------------------------------------------------------
(* utils: createPositionConverter *)

\* code.matchAll(/.*?($|\n)/g): every line with its terminator, the text after
\* the last terminator when there is any, and the empty match at the end
RECURSIVE splitLines(_, _)
splitLines(rest, cur) ==
    IF rest = <<>> THEN (IF cur = <<>> THEN <<>> ELSE <<cur>>) \o << <<>> >>
    ELSE IF Head(rest) = NL
         THEN <<Append(cur, NL)>> \o splitLines(Tail(rest), <<>>)
         ELSE splitLines(Tail(rest), Append(cur, Head(rest)))

converterLines(text) == splitLines(text, <<>>)

RECURSIVE indexToPosLoop(_, _, _)
indexToPosLoop(ls, character, line) ==
    IF ls = <<>> THEN [line |-> line, character |-> character]
    ELSE IF character < Len(Head(ls))
         THEN [line |-> line, character |-> character]
         ELSE indexToPosLoop(Tail(ls), character - Len(Head(ls)), line + 1)

indexToPos(text, index) == indexToPosLoop(converterLines(text), index, 0)

RECURSIVE sumLineLengths(_, _)
sumLineLengths(ls, n) ==
    IF n <= 0 THEN 0 ELSE Len(ls[n]) + sumLineLengths(ls, n - 1)

\* for (let i = 0; i < line - 1; i++) index += lines[i].length
posToIndex(text, line, character) ==
    sumLineLengths(converterLines(text), line - 1) + character

getIndexOfLineAbove(text, index) ==
    LET pos == indexToPos(text, index)
    IN  posToIndex(text, pos.line, pos.character)

----------------------------------------------------------------------------
(* utils: removeCodeRanges, one pass of the loop over one range *)

\* removeNode that forgets the record's length in its first test
\* the pass that tests `node.start < remove[1]` last: an invalidated record
\* that reaches past remove[0] is moved
removeNodeMovesInvalid(node, remove) ==
    IF node.start + node.length <= remove[1] THEN node
    ELSE IF node.start >= remove[2] \/ node.start < 0
         THEN [node EXCEPT !.start = node.start - (remove[2] - remove[1])]
    ELSE [node EXCEPT !.start = -1]

removeNodeNoLength(node, remove) ==
    IF node.start <= remove[1] THEN node
    ELSE IF node.start < remove[2] THEN [node EXCEPT !.start = -1]
    ELSE [node EXCEPT !.start = node.start - (remove[2] - remove[1])]

removeNode(node, remove) ==
    IF node.start + node.length <= remove[1] THEN node
    ELSE IF node.start < remove[2] THEN [node EXCEPT !.start = -1]
    ELSE [node EXCEPT !.start = node.start - (remove[2] - remove[1])]

\* removeText that also drops the character after the range
removeTextOneMore(text, remove) ==
    slice(text, 0, remove[1]) \o slice(text, remove[2] + 1, Len(text))

removeText(text, remove) ==
    slice(text, 0, remove[1]) \o slice(text, remove[2], Len(text))

removeRangesOrder(rs) == sortRanges(mergeRanges(rs), TRUE)

----------------------------------------------------------------------------
(* utils: resolveNodePositions *)

\* the node kinds; String.prototype.localeCompare orders these lower-case
\* ASCII words as the dictionary does
Letters == <<"a","b","c","d","e","f","g","h","i","j","k","l","m",
             "n","o","p","q","r","s","t","u","v","w","x","y","z">>

letterRank(c) == CHOOSE k \in 1..Len(Letters) : Letters[k] = c

KindSpelling ==
    [completion |-> <<"c","o","m","p","l","e","t","i","o","n">>,
     error      |-> <<"e","r","r","o","r">>,
     highlight  |-> <<"h","i","g","h","l","i","g","h","t">>,
     hover      |-> <<"h","o","v","e","r">>,
     query      |-> <<"q","u","e","r","y">>,
     tag        |-> <<"t","a","g">>]

Kinds == DOMAIN KindSpelling

RECURSIVE compareWords(_, _)
compareWords(a, b) ==
    IF a = <<>> /\ b = <<>> THEN 0
    ELSE IF a = <<>> THEN -1
    ELSE IF b = <<>> THEN 1
    ELSE IF Head(a) = Head(b) THEN compareWords(Tail(a), Tail(b))
    ELSE IF letterRank(Head(a)) < letterRank(Head(b)) THEN -1 ELSE 1

localeCompare(a, b) == compareWords(KindSpelling[a], KindSpelling[b])

\* cmpNode without the tie-break on the kind name
cmpNodeStartOnly(a, b) == a.start - b.start

\* (a, b) => a.start - b.start || a.type.localeCompare(b.type)
cmpNode(a, b) ==
    IF a.start - b.start # 0 THEN a.start - b.start
    ELSE localeCompare(a.type, b.type)

RECURSIVE insertNode(_, _)
insertNode(sorted, x) ==
    IF sorted = <<>> THEN <<x>>
    ELSE IF cmpNode(Head(sorted), x) <= 0
         THEN <<Head(sorted)>> \o insertNode(Tail(sorted), x)
         ELSE <<x>> \o sorted

RECURSIVE sortNodesFrom(_, _)
sortNodesFrom(rest, sorted) ==
    IF rest = <<>> THEN sorted
    ELSE sortNodesFrom(Tail(rest), insertNode(sorted, Head(rest)))

keepNode(node) == node.start >= 0

filterNodes(ns) == SelectSeq(ns, keepNode)

assignPos(node, text) ==
    LET pos == indexToPos(text, node.start)
    IN  [type |-> node.type, start |-> node.start, length |-> node.length,
         orig |-> node.orig, line |-> pos.line, character |-> pos.character]

resolveNodePositions(ns, text) ==
    LET sorted == sortNodesFrom(filterNodes(ns), <<>>)
    IN  [k \in 1..Len(sorted) |-> assignPos(sorted[k], text)]

----------------------------------------------------------------------------
(* regexp.ts: the directive patterns.  The file is not among the sources;   *)
(* the patterns follow the directive grammar of the specification: a line   *)
(* comment "//", at most one blank, then the token, alone on its line.      *)

tokSlashes == <<"/","/">>
CutSpelling ==
    [cut |-> <<"-","-","-","c","u","t","-","-","-">>,
     before |-> <<"-","-","-","c","u","t","-","b","e","f","o","r","e","-","-","-">>,
     after |-> <<"-","-","-","c","u","t","-","a","f","t","e","r","-","-","-">>,
     start |-> <<"-","-","-","c","u","t","-","s","t","a","r","t","-","-","-">>,
     end |-> <<"-","-","-","c","u","t","-","e","n","d","-","-","-">>]
tokFilename == <<"f","i","l","e","n","a","m","e">>

LowerLetters == {"a","b","c","d","e","f","g","h","i","j","k","l","m",
                 "n","o","p","q","r","s","t","u","v","w","x","y","z"}
UpperLetters == {"A","B","C","D","E","F","G","H","I","J","K","L","M",
                 "N","O","P","Q","R","S","T","U","V","W","X","Y","Z"}
Digits == {"0","1","2","3","4","5","6","7","8","9"}

\* \w
WordChars == LowerLetters \cup UpperLetters \cup Digits \cup {"_"}

startsWith(s, p) == Len(s) >= Len(p) /\ SubSeq(s, 1, Len(p)) = p

dropChars(s, n) == SubSeq(s, n + 1, Len(s))

\* the offsets where `^` matches under the m flag
lineStarts(text) == {0} \cup {i \in 1..Len(text) : text[i] = NL}

\* the offset where `$` matches first at or after p
lineEnd(text, p) ==
    CHOOSE q \in p..Len(text) :
        /\ q = Len(text) \/ text[q + 1] = NL
        /\ \A k \in (p + 1)..q : text[k] # NL

lineAt(text, p) == SubSeq(text, p + 1, lineEnd(text, p))

\* what may follow "//\s?" on the line
commentBodies(line) ==
    IF ~startsWith(line, tokSlashes) THEN {}
    ELSE LET rest == dropChars(line, 2)
         IN  {rest} \cup (IF rest # <<>> /\ Head(rest) = " " THEN {Tail(rest)} ELSE {})


\* the length of the longest prefix of s made of word characters (\w+)
wordPrefixLen(s) ==
    CHOOSE n \in 0..Len(s) :
        /\ \A k \in 1..n : s[k] \in WordChars
        /\ n < Len(s) => s[n + 1] \notin WordChars

\* "@name" and what follows it on a directive line; <<>> when the line is none
configParts(line) ==
    LET bodies == {b \in commentBodies(line) : b # <<>> /\ Head(b) = "@"}
    IN  IF bodies = {} THEN <<>>
        ELSE LET b == Tail(CHOOSE x \in bodies : TRUE)
                 n == wordPrefixLen(b)
             IN  IF n = 0 THEN <<>>
                 ELSE <<[name |-> SubSeq(b, 1, n), rest |-> dropChars(b, n)]>>

\* reConfigBoolean: @name
matchesConfigBoolean(line) ==
    configParts(line) # <<>> /\ configParts(line)[1].rest = <<>>

\* reConfigValue: @name: value, the value being `\s?(.+)` after the colon
matchesConfigValue(line) ==
    /\ configParts(line) # <<>>
    /\ Len(configParts(line)[1].rest) >= 2
    /\ Head(configParts(line)[1].rest) = ":"

configName(line) == configParts(line)[1].name

configValue(line) ==
    LET v == Tail(configParts(line)[1].rest)
    IN  IF Head(v) = " " /\ Len(v) > 1 THEN Tail(v) ELSE v

----------------------------------------------------------------------------
(* regexp.ts: the position markers.  Not among the sources; from the         *)
(* directive grammar: blanks, "//", blanks, "^" and "?", "|" or more "^",    *)
(* then nothing or a blank and a label, alone on the line.                   *)

RECURSIVE trimStart(_)
trimStart(s) == IF s # <<>> /\ Head(s) = " " THEN trimStart(Tail(s)) ELSE s

RECURSIVE trimEnd(_)
trimEnd(s) ==
    IF s # <<>> /\ s[Len(s)] = " " THEN trimEnd(SubSeq(s, 1, Len(s) - 1)) ELSE s

\* the length of the run of "^" that opens s
caretRun(s) ==
    CHOOSE n \in 0..Len(s) :
        /\ \A k \in 1..n : s[k] = "^"
        /\ n < Len(s) => s[n + 1] # "^"

\* match[1] and match[2] of a marker line; <<>> when the line is no marker
markerParts(line) ==
    LET a == trimStart(line)
        b == IF startsWith(a, tokSlashes) THEN trimStart(dropChars(a, 2)) ELSE <<>>
    IN  IF Len(b) < 2 \/ Head(b) # "^" THEN <<>>
        ELSE LET c == Tail(b)
                 sigil == IF Head(c) \in {"?", "|"} THEN 1 ELSE caretRun(c)
                 after == dropChars(c, sigil)
             IN  IF sigil = 0 \/ (after # <<>> /\ Head(after) # " ") THEN <<>>
                 ELSE <<[type |-> IF Head(c) = "^" THEN "^^" ELSE Head(c),
                         label |-> after]>>

matchesMarker(line) == markerParts(line) # <<>>

\* s.indexOf(c) and s.lastIndexOf(c) of a character that occurs in s
indexOf(s, c) == (CHOOSE k \in 1..Len(s) : s[k] = c /\ \A m \in 1..(k - 1) : s[m] # c) - 1

lastIndexOf(s, c) ==
    (CHOOSE k \in 1..Len(s) : s[k] = c /\ \A m \in (k + 1)..Len(s) : s[m] # c) - 1

----------------------------------------------------------------------------
(* the patterns at work: code.matchAll(re) *)

tokFilenameTag == <<"@","f","i","l","e","n","a","m","e",":"," ">>

\* reFilenamesMakers, utils 160: /^\/\/\s?@filename: (.+)$/mg at offset p.  What
\* follows "//" and the one optional blank, which may be the line break
filenameBodies(text, p) ==
    LET from == dropChars(text, p)
        rest == dropChars(from, 2)
        tries == IF ~startsWith(from, tokSlashes) THEN {}
                 ELSE {rest} \cup (IF rest # <<>> /\ Head(rest) \in {" ", NL}
                                   THEN {Tail(rest)} ELSE {})
    IN  {b \in tries : /\ startsWith(b, tokFilenameTag)
                       /\ Len(b) > Len(tokFilenameTag)
                       /\ b[Len(tokFilenameTag) + 1] # NL}

matchesFilename(text, p) == filenameBodies(text, p) # {}

RECURSIVE ascending(_)
ascending(S) ==
    IF S = {} THEN <<>>
    ELSE LET m == CHOOSE x \in S : \A y \in S : x <= y
         IN  <<m>> \o ascending(S \ {m})

\* the offsets of the lines of the text that match a pattern
matchesCut(text, spellings) ==
    {p \in lineStarts(text) : commentBodies(lineAt(text, p)) \cap spellings # {}}

matchesOf(text, re) ==
    {p \in lineStarts(text) :
        CASE re = "reConfigBoolean" -> matchesConfigBoolean(lineAt(text, p))
          [] re = "reConfigValue" -> matchesConfigValue(lineAt(text, p))
          [] re = "reAnnonateMarkers" -> matchesMarker(lineAt(text, p))
          [] re = "reFilenamesMakers" -> matchesFilename(text, p)}

\* code.matchAll(re) of the matches found: by index; match[0] is the whole line
matchAll(text, found) ==
    [k \in 1..Cardinality(found) |->
        [index |-> ascending(found)[k], text |-> lineAt(text, ascending(found)[k])]]

----------------------------------------------------------------------------
(* errors: TwoslashError(title, ...) and what its description lists *)

NoError == [title |-> "", detail |-> <<>>]

TwoslashError(title, detail) == [title |-> title, detail |-> detail]

isError(e) == e.title # ""

----------------------------------------------------------------------------
(* utils: findCutNotations *)

cutPairs(cutStart, cutEnd) ==
    [i \in 1..Len(cutStart) |->
        <<cutStart[i].index, cutEnd[i].index + Len(cutEnd[i].text) + 1>>]

\* the count test with `>`: spare cut-ends pass
cutCountsDifferFewerEnds(cutStart, cutEnd) == Len(cutStart) > Len(cutEnd)

\* utils 401
cutCountsDiffer(cutStart, cutEnd) == Len(cutStart) # Len(cutEnd)

findCutNotations(text) ==
    LET cutBefore == matchAll(text, matchesCut(text, {CutSpelling.cut, CutSpelling.before}))
        cutAfter == matchAll(text, matchesCut(text, {CutSpelling.after}))
        cutStart == matchAll(text, matchesCut(text, {CutSpelling.start}))
        cutEnd == matchAll(text, matchesCut(text, {CutSpelling.end}))
        last == cutBefore[Len(cutBefore)]
        before == IF Len(cutBefore) > 0
                  THEN << <<0, last.index + Len(last.text) + 1>> >> ELSE <<>>
        after == IF Len(cutAfter) > 0
                 THEN << <<cutAfter[1].index, Len(text)>> >> ELSE <<>>
        inverted == {i \in 1..Len(cutStart) : cutStart[i].index > cutEnd[i].index}
    IN  IF cutCountsDiffer(cutStart, cutEnd)
        THEN [error |-> TwoslashError("Mismatched cut markers",
                                      <<Len(cutStart), Len(cutEnd)>>),
              removals |-> <<>>]
        ELSE IF inverted # {}
        THEN LET i == CHOOSE x \in inverted : \A y \in inverted : x <= y
             IN  [error |-> TwoslashError("Mismatched cut markers",
                                          <<cutStart[i].index, cutEnd[i].index>>),
                  removals |-> <<>>]
        ELSE [error |-> NoError,
              removals |-> before \o after \o cutPairs(cutStart, cutEnd)]

----------------------------------------------------------------------------
(* JavaScript values of options: a tag and the value *)

Undefined == [k |-> "undefined"]
BoolV(b) == [k |-> "boolean", b |-> b]
StrV(s) == [k |-> "string", s |-> s]
NumV(n) == [k |-> "number", nan |-> FALSE, n |-> n]
NaN == [k |-> "number", nan |-> TRUE, n |-> 0]
ListV(items) == [k |-> "list", items |-> items]

\* !!v
truthy(v) ==
    CASE v.k = "undefined" -> FALSE
      [] v.k = "boolean" -> v.b
      [] v.k = "string" -> v.s # <<>>
      [] v.k = "number" -> ~v.nan /\ v.n # 0
      [] OTHER -> TRUE

DigitSeq == <<"0","1","2","3","4","5","6","7","8","9">>

digitValue(c) == (CHOOSE k \in 1..10 : DigitSeq[k] = c) - 1

RECURSIVE decimal(_, _)
decimal(s, acc) ==
    IF s = <<>> THEN acc ELSE decimal(Tail(s), 10 * acc + digitValue(Head(s)))

\* Number(s) of a string: decimal digits, the empty string, or NaN
Number(s) ==
    IF \A k \in 1..Len(s) : s[k] \in Digits THEN NumV(decimal(s, 0)) ELSE NaN

UpperSeq == <<"A","B","C","D","E","F","G","H","I","J","K","L","M",
              "N","O","P","Q","R","S","T","U","V","W","X","Y","Z">>

lowerChar(c) ==
    IF c \in UpperLetters
    THEN Letters[CHOOSE k \in 1..26 : UpperSeq[k] = c]
    ELSE c

toLowerCase(s) == [k \in 1..Len(s) |-> lowerChar(s[k])]

\* s.split(sep)
RECURSIVE splitOn(_, _, _)
splitOn(s, sep, cur) ==
    IF s = <<>> THEN <<cur>>
    ELSE IF Head(s) = sep THEN <<cur>> \o splitOn(Tail(s), sep, <<>>)
    ELSE splitOn(Tail(s), sep, Append(cur, Head(s)))

split(s, sep) == splitOn(s, sep, <<>>)

includes(list, x) == \E k \in 1..Len(list) : list[k] = x

----------------------------------------------------------------------------
(* defaults.ts (not among the sources): the behavior options the code reads, *)
(* all off by default                                                        *)

HandbookSpelling ==
    [errors |-> <<"e","r","r","o","r","s">>,
     noErrors |-> <<"n","o","E","r","r","o","r","s">>,
     noErrorsCutted |-> <<"n","o","E","r","r","o","r","s","C","u","t","t","e","d">>,
     noErrorValidation |-> <<"n","o","E","r","r","o","r","V","a","l","i","d","a","t","i","o","n">>,
     noStaticSemanticInfo |-> <<"n","o","S","t","a","t","i","c","S","e","m","a","n","t","i","c","I","n","f","o">>,
     showEmit |-> <<"s","h","o","w","E","m","i","t">>,
     showEmittedFile |-> <<"s","h","o","w","E","m","i","t","t","e","d","F","i","l","e">>,
     keepNotations |-> <<"k","e","e","p","N","o","t","a","t","i","o","n","s">>]

HandbookNames == DOMAIN HandbookSpelling

defaultHandbookOptions ==
    [h \in HandbookNames |->
        CASE h = "errors" -> ListV(<<>>)
          [] h = "showEmittedFile" -> Undefined
          [] OTHER -> BoolV(FALSE)]

isHandbookOption(name) == \E h \in HandbookNames : HandbookSpelling[h] = name

handbookKey(name) == CHOOSE h \in HandbookNames : HandbookSpelling[h] = name

----------------------------------------------------------------------------
(* ts.optionDeclarations (core 20): the compiler option schema; an input    *)
(* from the TypeScript module, here the options core.ts reads and one of     *)
(* each declared kind                                                        *)

CompilerSpelling ==
    [target |-> <<"t","a","r","g","e","t">>,
     jsx |-> <<"j","s","x">>,
     outFile |-> <<"o","u","t","F","i","l","e">>,
     resolveJsonModule |-> <<"r","e","s","o","l","v","e","J","s","o","n","M","o","d","u","l","e">>,
     types |-> <<"t","y","p","e","s">>,
     maxNodeModuleJsDepth |-> <<"m","a","x","N","o","d","e","M","o","d","u","l","e","J","s","D","e","p","t","h">>]

CompilerNames == DOMAIN CompilerSpelling

NoMap == [x \in {} |-> 0]

tsOptionDeclarations ==
    <<[name |-> CompilerSpelling.target, type |-> "map", element |-> "",
       map |-> [x \in {<<"e","s","5">>} |-> 1]],
      [name |-> CompilerSpelling.jsx, type |-> "map", element |-> "",
       map |-> [x \in {<<"p","r","e","s","e","r","v","e">>, <<"r","e","a","c","t">>} |->
                   IF x = <<"r","e","a","c","t">> THEN 2 ELSE 1]],
      [name |-> CompilerSpelling.outFile, type |-> "string", element |-> "", map |-> NoMap],
      [name |-> CompilerSpelling.resolveJsonModule, type |-> "boolean", element |-> "",
       map |-> NoMap],
      [name |-> CompilerSpelling.types, type |-> "list", element |-> "string", map |-> NoMap],
      [name |-> CompilerSpelling.maxNodeModuleJsDepth, type |-> "number", element |-> "",
       map |-> NoMap]>>

compilerKey(name) == CHOOSE c \in CompilerNames : CompilerSpelling[c] = name

----------------------------------------------------------------------------
(* utils: parsePrimitive, getOptionValueFromMap, parseFlag, findFlagNotations *)

\* a value or the error thrown instead
Returned(v) == [error |-> NoError, value |-> v]
Thrown(e) == [error |-> e, value |-> Undefined]

parsePrimitive(value, type) ==
    IF value.k = type THEN Returned(value)
    ELSE CASE type = "number" ->
                 Returned(IF value.k = "boolean"
                          THEN NumV(IF value.b THEN 1 ELSE 0) ELSE Number(value.s))
           [] type = "string" -> Returned(value)
           [] type = "boolean" ->
                 \* value.toLowerCase() of a string
                 Returned(BoolV(toLowerCase(value.s) = <<"t","r","u","e">> \/ value.s = <<>>))
           [] OTHER ->
                 Thrown(TwoslashError("Unknown primitive value in compiler flag", <<type>>))

getOptionValueFromMap(name, key, optMap) ==
    \* key.toLowerCase() of `true` is no function
    IF key.k # "string" THEN Thrown(TwoslashError("TypeError", <<name>>))
    ELSE IF toLowerCase(key.s) \notin DOMAIN optMap
    THEN Thrown(TwoslashError("Invalid inline compiler value", <<name, key.s>>))
    ELSE Returned(NumV(optMap[toLowerCase(key.s)]))

\* strings.map(v => parsePrimitive(v, elementType)) of a list of strings
parseList(strings, elementType) ==
    LET each == [k \in 1..Len(strings) |-> parsePrimitive(StrV(strings[k]), elementType)]
        bad == {k \in 1..Len(each) : isError(each[k].error)}
    IN  IF bad # {} THEN each[CHOOSE k \in bad : \A m \in bad : k <= m]
        ELSE Returned(ListV([k \in 1..Len(each) |-> each[k].value]))

Flag(type, name, value, start, end) ==
    [type |-> type, name |-> name, value |-> value, start |-> start, end |-> end]

\* the handbookOptions branch of parseFlag: "errors" and "noErrors" hold codes
handbookValue(name, value) ==
    IF value.k # "string" THEN value
    ELSE LET codes == ListV([k \in 1..Len(split(value.s, " ")) |->
                                Number(split(value.s, " ")[k])])
         IN  CASE name = HandbookSpelling.errors -> codes
               [] name = HandbookSpelling.noErrors ->
                      IF value.s = <<"t","r","u","e">> THEN BoolV(TRUE)
                      ELSE IF value.s = <<"f","a","l","s","e">> THEN BoolV(FALSE)
                      ELSE codes
               [] OTHER -> value

parseFlag(name, value, start, end, customTags, decls) ==
    IF includes(customTags, name)
    THEN Returned(Flag("tag", name, value, start, end))
    ELSE LET found == {k \in 1..Len(decls) : toLowerCase(decls[k].name) = toLowerCase(name)}
         IN  IF found # {}
             THEN LET decl == decls[CHOOSE k \in found : \A m \in found : k <= m]
                      parsed ==
                          CASE decl.type \in {"number", "string", "boolean"} ->
                                   parsePrimitive(value, decl.type)
                            [] decl.type = "list" ->
                                   \* value.split(',') of `true` is no function
                                   IF value.k # "string"
                                   THEN Thrown(TwoslashError("TypeError", <<name>>))
                                   ELSE parseList(split(value.s, ","), decl.element)
                            [] OTHER -> getOptionValueFromMap(decl.name, value, decl.map)
                  IN  IF isError(parsed.error) THEN parsed
                      ELSE Returned(Flag("compilerOptions", decl.name, parsed.value, start, end))
             ELSE IF isHandbookOption(name)
             THEN Returned(Flag("handbookOptions", name, handbookValue(name, value), start, end))
             ELSE Returned(Flag("unknown", name, value, start, end))

\* the parseFlag calls of findFlagNotations, in order: the boolean directives,
\* then the valued ones but @filename
flagCalls(text) ==
    LET bools == matchAll(text, matchesOf(text, "reConfigBoolean"))
        valued == SelectSeq(matchAll(text, matchesOf(text, "reConfigValue")),
                            LAMBDA m : configName(m.text) # tokFilename)
    IN  [k \in 1..Len(bools) |->
            [name |-> configName(bools[k].text), value |-> BoolV(TRUE),
             start |-> bools[k].index,
             end |-> bools[k].index + Len(bools[k].text) + 1]]
        \o
        [k \in 1..Len(valued) |->
            [name |-> configName(valued[k].text),
             value |-> StrV(configValue(valued[k].text)),
             start |-> valued[k].index,
             end |-> valued[k].index + Len(valued[k].text) + 1]]

RECURSIVE parseFlags(_, _, _, _)
parseFlags(calls, acc, customTags, decls) ==
    IF calls = <<>> THEN [error |-> NoError, flags |-> acc]
    ELSE LET c == Head(calls)
             r == parseFlag(c.name, c.value, c.start, c.end, customTags, decls)
         IN  IF isError(r.error) THEN [error |-> r.error, flags |-> <<>>]
             ELSE parseFlags(Tail(calls), Append(acc, r.value), customTags, decls)

findFlagNotations(text, customTags, decls) ==
    parseFlags(flagCalls(text), <<>>, customTags, decls)

----------------------------------------------------------------------------
(* utils: typesToExtension *)

extensionMap ==
    (<<"j","s">> :> <<"j","s">>
     @@ <<"j","a","v","a","s","c","r","i","p","t">> :> <<"j","s">>
     @@ <<"t","s">> :> <<"t","s">>
     @@ <<"t","y","p","e","s","c","r","i","p","t">> :> <<"t","s">>
     @@ <<"t","s","x">> :> <<"t","s","x">>
     @@ <<"j","s","x">> :> <<"j","s","x">>
     @@ <<"j","s","o","n">> :> <<"j","s","o","n">>
     @@ <<"j","s","n">> :> <<"j","s","o","n">>
     @@ <<"m","a","p">> :> <<"j","s","o","n">>
     @@ <<"m","t","s">> :> <<"t","s">>
     @@ <<"c","t","s">> :> <<"t","s">>
     @@ <<"m","j","s">> :> <<"j","s">>
     @@ <<"c","j","s">> :> <<"j","s">>)

typesToExtension(types) ==
    IF types \in DOMAIN extensionMap
    THEN [error |-> NoError, value |-> extensionMap[types]]
    ELSE [error |-> TwoslashError("Unknown TypeScript extension given to Twoslash", <<types>>),
          value |-> <<>>]

----------------------------------------------------------------------------
(* core: twoslasher, from the call to the scan of the cut markers *)

\* defaults.ts is not among the sources: no compiler option the model reads is set
defaultCompilerOptions == [c \in CompilerNames |-> Undefined]

\* list || []
orEmpty(list) == IF list.k = "list" THEN list.items ELSE <<>>

\* core 52-70; the option objects are spread left to right
newMeta(extension) ==
    [extension |-> extension,
     compilerOptions |-> options.compilerOptions @@ defaultCompilerOptions,
     handbookOptions |-> options.handbookOptions @@ defaultHandbookOptions,
     flagNotations |-> <<>>,
     virtualFiles |-> <<>>,
     positionQueries |-> orEmpty(options.positionQueries),
     positionCompletions |-> orEmpty(options.positionCompletions),
     positionHighlights |-> orEmpty(options.positionHighlights)]

\* core 52-79
Start ==
    /\ pc = "start"
    /\ LET ext == typesToExtension(options.extension)
       IN  IF isError(ext.error)
           THEN /\ error' = ext.error
                /\ pc' = "error"
                /\ UNCHANGED meta
           ELSE /\ meta' = newMeta(ext.value)
                /\ pc' = "flags"
                /\ UNCHANGED error
    /\ UNCHANGED <<code, outputCode, removals, eraseVars, nodes, resolved, options, backend,
                   quickInfo>>

Node(type, start, length) ==
    [type |-> type, start |-> start, length |-> length, orig |-> start]

\* `break` for `continue` at core 87: an unknown flag's span is pushed too
applyFlagUnknownRemoved(st, flag) ==
    [st EXCEPT !.removals = Append(@, <<flag.start, flag.end>>),
               !.nodes = IF flag.type = "tag"
                         THEN Append(@, [type |-> "tag", start |-> flag.end, length |-> 0,
                                         orig |-> flag.end])
                         ELSE @,
               !.compilerOptions =
                   IF flag.type = "compilerOptions"
                   THEN [@ EXCEPT ![CHOOSE c \in CompilerNames :
                                       CompilerSpelling[c] = flag.name] = flag.value]
                   ELSE @,
               !.handbookOptions =
                   IF flag.type = "handbookOptions"
                   THEN [@ EXCEPT ![CHOOSE h \in HandbookNames :
                                       HandbookSpelling[h] = flag.name] = flag.value]
                   ELSE @]

\* core 84-107: one turn of the loop over meta.flagNotations
applyFlag(st, flag) ==
    LET removed == Append(st.removals, <<flag.start, flag.end>>)
    IN  CASE flag.type = "unknown" -> st
          [] flag.type = "compilerOptions" ->
                 [st EXCEPT !.compilerOptions[compilerKey(flag.name)] = flag.value,
                            !.removals = removed]
          [] flag.type = "handbookOptions" ->
                 [st EXCEPT !.handbookOptions[handbookKey(flag.name)] = flag.value,
                            !.removals = removed]
          [] flag.type = "tag" ->
                 [st EXCEPT !.nodes = Append(@, Node("tag", flag.end, 0)),
                            !.removals = removed]

RECURSIVE applyFlags(_, _)
applyFlags(st, flags) ==
    IF flags = <<>> THEN st ELSE applyFlags(applyFlag(st, Head(flags)), Tail(flags))


\* the error stopping at the first unknown flag
unknownNamesFirst(flags) ==
    LET unknownFlags == SelectSeq(flags, LAMBDA f : f.type = "unknown")
    IN  IF unknownFlags = <<>> THEN <<>> ELSE <<unknownFlags[1].name>>

\* core 110-114: the names the error lists
unknownNames(flags) ==
    LET unknownFlags == SelectSeq(flags, LAMBDA f : f.type = "unknown")
    IN  [k \in 1..Len(unknownFlags) |-> unknownFlags[k].name]

\* core 81-118
Flags ==
    /\ pc = "flags"
    /\ LET found == findFlagNotations(code, options.customTags, tsOptionDeclarations)
           st == applyFlags([compilerOptions |-> meta.compilerOptions,
                             handbookOptions |-> meta.handbookOptions,
                             nodes |-> nodes, removals |-> removals], found.flags)
       IN  IF isError(found.error)
           THEN /\ error' = found.error
                /\ pc' = "error"
                /\ UNCHANGED <<meta, nodes, removals>>
           ELSE /\ meta' = [meta EXCEPT !.flagNotations = found.flags,
                                        !.compilerOptions = st.compilerOptions,
                                        !.handbookOptions = st.handbookOptions]
                /\ nodes' = st.nodes
                /\ removals' = st.removals
                /\ IF /\ ~truthy(st.handbookOptions.noErrorValidation)
                      /\ unknownNames(found.flags) # <<>>
                   THEN /\ error' = TwoslashError("Unknown inline compiler flags",
                                                  unknownNames(found.flags))
                        /\ pc' = "error"
                   ELSE /\ pc' = "env"
                        /\ UNCHANGED error
    /\ UNCHANGED <<code, outputCode, eraseVars, resolved, options, backend, quickInfo>>

\* core 121-123: getEnv builds the environment or takes it from the cache
GetEnv ==
    /\ pc = "env"
    /\ backend' = Append(backend, "getEnv")
    /\ pc' = "cuts"
    /\ UNCHANGED <<code, outputCode, removals, eraseVars, nodes, resolved, options, meta, error,
                   quickInfo>>

\* core 126
Cuts ==
    /\ pc = "cuts"
    /\ LET cuts == findCutNotations(code)
       IN  IF isError(cuts.error)
           THEN /\ error' = cuts.error
                /\ pc' = "error"
                /\ UNCHANGED removals
           ELSE /\ removals' = removals \o cuts.removals
                /\ pc' = "markers"
                /\ UNCHANGED error
    /\ UNCHANGED <<code, outputCode, eraseVars, nodes, resolved, options, meta, backend,
                   quickInfo>>

----------------------------------------------------------------------------
(* utils: findQueryMarkers *)

\* code.includes('//')
hasSlashes(text) == \E i \in 1..(Len(text) - 1) : text[i] = "/" /\ text[i + 1] = "/"

\* utils 429-448: one marker; st holds the removal list and the three target lists
markerStep(text, st, match) ==
    LET type == markerParts(match.text)[1].type
        index == match.index
        markerIndex == indexOf(match.text, "^")
        targetIndex == getIndexOfLineAbove(text, index + markerIndex)
        markerLength == lastIndexOf(match.text, "^") - markerIndex + 1
        removed == Append(st.removals, <<index, index + Len(match.text) + 1>>)
    IN  CASE type = "?" ->
                 [st EXCEPT !.removals = removed,
                            !.positionQueries = Append(@, targetIndex)]
          [] type = "|" ->
                 [st EXCEPT !.removals = removed,
                            !.positionCompletions = Append(@, targetIndex)]
          [] OTHER ->
                 [st EXCEPT !.removals = removed,
                            !.positionHighlights =
                                Append(@, <<targetIndex, targetIndex + markerLength>>)]

\* utils 429: forEach
RECURSIVE markerLoop(_, _, _)
markerLoop(text, st, found) ==
    IF found = <<>> THEN st
    ELSE markerLoop(text, markerStep(text, st, Head(found)), Tail(found))

\* utils 423-452; a highlight's label rides along and is left out
findQueryMarkers(text, st) ==
    IF hasSlashes(text)
    THEN markerLoop(text, st, matchAll(text, matchesOf(text, "reAnnonateMarkers")))
    ELSE st

----------------------------------------------------------------------------
(* utils: splitFiles *)

\* match[1].trimEnd()
filenameOf(text, p) ==
    trimEnd(lineAt(dropChars(CHOOSE b \in filenameBodies(text, p) : TRUE,
                             Len(tokFilenameTag)), 0))

\* utils 201-203
getExtension(fileName) == split(fileName, ".")[Len(split(fileName, "."))]

VirtualFile(offset, filename, root, content) ==
    [offset |-> offset, filename |-> filename, filepath |-> root \o filename,
     content |-> content, extension |-> getExtension(filename)]

reservedIndexName == <<"_","_","i","n","d","e","x","_","_",".","t","s">>

\* `if (content)` left out: the text before a directive is a file even when empty
splitStepKeepEmpty(text, root, st, match) ==
    [files |-> Append(st.files,
                      VirtualFile(st.index, st.currentFileName, root,
                                  slice(text, st.index, match.index))),
     currentFileName |-> filenameOf(text, match.index),
     index |-> match.index]

\* utils 171-185: one filename directive
splitStep(text, root, st, match) ==
    LET content == slice(text, st.index, match.index)
    IN  [files |-> IF content # <<>>
                   THEN Append(st.files,
                               VirtualFile(st.index, st.currentFileName, root, content))
                   ELSE st.files,
         currentFileName |-> filenameOf(text, match.index),
         index |-> match.index]

\* utils 171
RECURSIVE splitLoop(_, _, _, _)
splitLoop(text, root, st, found) ==
    IF found = <<>> THEN st
    ELSE splitLoop(text, root, splitStep(text, root, st, Head(found)), Tail(found))

\* utils 162-199
splitFiles(text, defaultFileName, root) ==
    LET matches == matchAll(text, matchesOf(text, "reFilenamesMakers"))
        allFilenames == [k \in 1..Len(matches) |-> filenameOf(text, matches[k].index)]
        st == splitLoop(text, root,
                        [files |-> <<>>,
                         currentFileName |-> IF includes(allFilenames, defaultFileName)
                                             THEN reservedIndexName ELSE defaultFileName,
                         index |-> 0],
                        matches)
    IN  IF st.index < Len(text)
        THEN Append(st.files,
                    VirtualFile(st.index, st.currentFileName, root,
                                slice(text, st.index, Len(text))))
        ELSE st.files

----------------------------------------------------------------------------
(* core: the marker scan and the split *)

\* core 28, the file map being supplied
fsRoot == <<"/">>

\* core 77
defaultFilename == <<"i","n","d","e","x",".">> \o meta.extension

\* the caller's list is the run's list when the caller gave one (core 67-69)
sameList(given, list) == IF given.k = "list" THEN ListV(list) ELSE given

\* core 128
Markers ==
    /\ pc = "markers"
    /\ LET st == findQueryMarkers(code,
                     [removals |-> removals,
                      positionQueries |-> meta.positionQueries,
                      positionCompletions |-> meta.positionCompletions,
                      positionHighlights |-> meta.positionHighlights])
       IN  /\ removals' = st.removals
           /\ meta' = [meta EXCEPT !.positionQueries = st.positionQueries,
                                   !.positionCompletions = st.positionCompletions,
                                   !.positionHighlights = st.positionHighlights]
           /\ options' =
                  [options EXCEPT
                      !.positionQueries = sameList(@, st.positionQueries),
                      !.positionCompletions = sameList(@, st.positionCompletions),
                      !.positionHighlights = sameList(@, st.positionHighlights)]
    /\ pc' = "split"
    /\ UNCHANGED <<code, outputCode, eraseVars, nodes, resolved, error, backend, quickInfo>>

\* core 130-131
Split ==
    /\ pc = "split"
    /\ meta' = [meta EXCEPT !.virtualFiles = splitFiles(code, defaultFilename, fsRoot)]
    /\ pc' = "files"
    /\ UNCHANGED <<code, outputCode, removals, eraseVars, nodes, resolved, options, error,
                   backend, quickInfo>>

----------------------------------------------------------------------------
(* core: the file loop (158-277) *)

\* the offset where the line of p begins
lineStartOf(text, p) ==
    CHOOSE q \in lineStarts(text) : q <= p /\ \A r \in lineStarts(text) : r <= p => r <= q

\* utils 59-76 asks the TypeScript parser; here an identifier is a word of a
\* line that is no comment
identifierStarts(content) ==
    {p \in 0..(Len(content) - 1) :
        /\ content[p + 1] \in WordChars
        /\ p = 0 \/ content[p] \notin WordChars
        /\ ~startsWith(trimStart(lineAt(content, lineStartOf(content, p))), tokSlashes)}

\* [start, end, text] of every identifier, in source order
getIdentifierTextSpans(content, fileOffset) ==
    LET at == ascending(identifierStarts(content))
    IN  [k \in 1..Len(at) |->
            LET text == SubSeq(content, at[k] + 1,
                               at[k] + wordPrefixLen(dropChars(content, at[k])))
            IN  <<at[k] + fileOffset, at[k] + fileOffset + Len(text), text>>]

\* utils 86-88
areRangesIntersecting(a, b) ==
    isInRange(a[1], b) \/ isInRange(a[2], b) \/ isInRange(b[1], a) \/ isInRange(b[2], a)

supportedFileTyes == <<<<"j","s">>, <<"j","s","x">>, <<"t","s">>, <<"t","s","x">>>>

\* the run as the loops see it: the records, the calls made and the error thrown
Call(st, name) == [st EXCEPT !.backend = Append(@, name)]
Push(st, node) == [st EXCEPT !.nodes = Append(@, node)]
Throw(st, e) == [st EXCEPT !.error = e]

\* core 137-156: the record of the answer at `start`, if the backend has one
getQuickInfo(start, target, answers) ==
    IF start \in answers THEN <<Node("hover", start, Len(target))>> ELSE <<>>

\* core 73: the caller's predicate, or () => true
shouldGetHoverInfo(target) ==
    options.shouldGetHoverInfo.k = "undefined" \/ target \notin options.shouldGetHoverInfo.rejects

\* core 183-192
hoverStep(st, id, answers) ==
    IF isInRanges(id[1], removals) \/ ~shouldGetHoverInfo(id[3]) THEN st
    ELSE LET node == getQuickInfo(id[1], id[3], answers)
             asked == Call(st, "getQuickInfoAtPosition")
         IN  IF node # <<>> THEN Push(asked, node[1]) ELSE asked

isInFile(file, pos) == file.offset <= pos /\ pos < file.offset + Len(file.content)

\* the query that finds nothing passed over in silence
queryStepSilent(st, query, file, ids, answers) ==
    IF isError(st.error) \/ ~isInFile(file, query) THEN st
    ELSE LET found == {k \in 1..Len(ids) : isInRange(query, <<ids[k][1], ids[k][2]>>)}
             id == ids[CHOOSE k \in found : \A m \in found : k <= m]
             node == IF found = {} THEN <<>> ELSE getQuickInfo(query, id[3], answers)
             asked == IF found = {} THEN st ELSE Call(st, "getQuickInfoAtPosition")
         IN  IF node # <<>> THEN Push(asked, [node[1] EXCEPT !.type = "query"]) ELSE asked

\* core 197-219
queryStep(st, query, file, ids, answers) ==
    IF isError(st.error) \/ ~isInFile(file, query) THEN st
    ELSE LET found == {k \in 1..Len(ids) : isInRange(query, <<ids[k][1], ids[k][2]>>)}
             id == ids[CHOOSE k \in found : \A m \in found : k <= m]
             node == IF found = {} THEN <<>> ELSE getQuickInfo(query, id[3], answers)
             asked == IF found = {} THEN st ELSE Call(st, "getQuickInfoAtPosition")
         IN  IF node # <<>> THEN Push(asked, [node[1] EXCEPT !.type = "query"])
             ELSE Throw(asked, TwoslashError("Invalid quick info query",
                                             <<indexToPos(code, query).line + 2>>))

\* core 230: the calls of ids.map(i => getQuickInfo(i[0], i[2]))
RECURSIVE askAll(_, _)
askAll(st, hit) ==
    IF hit = <<>> THEN st ELSE askAll(Call(st, "getQuickInfoAtPosition"), Tail(hit))

\* core 232-235
RECURSIVE pushHighlights(_, _, _)
pushHighlights(st, matched, answers) ==
    IF matched = <<>> THEN st
    ELSE pushHighlights(
             Push(st, [getQuickInfo(Head(matched)[1], Head(matched)[3], answers)[1]
                          EXCEPT !.type = "highlight"]),
             Tail(matched), answers)

\* core 223-245
highlightStep(st, highlight, file, ids, answers) ==
    IF isError(st.error) \/ ~isInFile(file, highlight[1]) THEN st
    ELSE LET hit == SelectSeq(ids, LAMBDA i : areRangesIntersecting(<<i[1], i[2]>>, highlight))
             asked == askAll(st, hit)
             matched == SelectSeq(hit, LAMBDA i : getQuickInfo(i[1], i[3], answers) # <<>>)
         IN  IF matched # <<>>
             THEN pushHighlights(asked, matched, answers)
             ELSE Throw(asked, TwoslashError("Invalid highlight query",
                                             <<indexToPos(code, highlight[1]).line + 2>>))

\* core 249-274; the entries of a completion record ride along and are left out
completionStep(st, target, file, completes) ==
    IF isError(st.error) \/ ~isInFile(file, target) \/ isInRanges(target, removals) THEN st
    ELSE LET asked == Call(st, "getCompletionsAtPosition")
         IN  IF ~completes /\ ~truthy(meta.handbookOptions.noErrorValidation)
             THEN Throw(asked, TwoslashError("Invalid completion query", <<target>>))
             ELSE Push(asked, Node("completion", target, 0))

\* core 160-166
isSourceFile(file) ==
    IF file.extension = <<"j","s","o","n">>
    THEN truthy(meta.compilerOptions.resolveJsonModule)
    ELSE includes(supportedFileTyes, file.extension)

\* core 183
RECURSIVE hoverLoop(_, _, _)
hoverLoop(st, ids, answers) ==
    IF ids = <<>> THEN st ELSE hoverLoop(hoverStep(st, Head(ids), answers), Tail(ids), answers)

\* core 197
RECURSIVE queryLoop(_, _, _, _, _)
queryLoop(st, queries, file, ids, answers) ==
    IF queries = <<>> THEN st
    ELSE queryLoop(queryStep(st, Head(queries), file, ids, answers),
                   Tail(queries), file, ids, answers)

\* core 223
RECURSIVE highlightLoop(_, _, _, _, _)
highlightLoop(st, highlights, file, ids, answers) ==
    IF highlights = <<>> THEN st
    ELSE highlightLoop(highlightStep(st, Head(highlights), file, ids, answers),
                       Tail(highlights), file, ids, answers)

\* core 249
RECURSIVE completionLoop(_, _, _, _)
completionLoop(st, targets, file, completes) ==
    IF targets = <<>> THEN st
    ELSE completionLoop(completionStep(st, Head(targets), file, completes),
                        Tail(targets), file, completes)

\* core 158-277: one file
populateFile(st, file, answers, completes) ==
    IF isError(st.error) \/ ~isSourceFile(file) THEN st
    ELSE IF truthy(meta.handbookOptions.showEmit) THEN Call(st, "createFile")
    ELSE LET ids == getIdentifierTextSpans(file.content, file.offset)
             created == Call(Call(st, "createFile"), "getSourceFile")
             hovered ==
                 IF truthy(meta.handbookOptions.noStaticSemanticInfo) THEN created
                 ELSE hoverLoop(created, ids, answers)
             queried == queryLoop(hovered, meta.positionQueries, file, ids, answers)
             highlighted ==
                 highlightLoop(queried, meta.positionHighlights, file, ids, answers)
         IN  completionLoop(highlighted, meta.positionCompletions, file, completes)

\* core 158
RECURSIVE populateFiles(_, _, _, _)
populateFiles(st, files, answers, completes) ==
    IF files = <<>> THEN st
    ELSE populateFiles(populateFile(st, Head(files), answers, completes),
                       Tail(files), answers, completes)

\* the offsets the run may ask quick info for
askable ==
    {i[1] : i \in {getIdentifierTextSpans(code, 0)[k] :
                      k \in 1..Len(getIdentifierTextSpans(code, 0))}}
    \cup {meta.positionQueries[k] : k \in 1..Len(meta.positionQueries)}

\* core 158-277; the backend answers as it likes
Populate ==
    /\ pc = "files"
    /\ \E answers \in SUBSET askable, completes \in BOOLEAN :
           LET st == populateFiles([nodes |-> nodes, backend |-> backend, error |-> NoError],
                                   meta.virtualFiles, answers, completes)
           IN  /\ nodes' = st.nodes
               /\ backend' = st.backend
               /\ IF isError(st.error)
                  THEN error' = st.error /\ pc' = "error"
                  ELSE pc' = "diagnose" /\ UNCHANGED error
               /\ quickInfo' = answers
    /\ UNCHANGED <<code, outputCode, removals, eraseVars, resolved, options, meta>>

----------------------------------------------------------------------------
(* core: diagnostics and their validation (279-326) *)

\* what the language service reports for a file: nothing, or one error at
\* the first identifier of the file
diagnosticsOf(file, reported) ==
    LET ids == getIdentifierTextSpans(file.content, 0)
    IN  IF reported /\ ids # <<>>
        THEN <<[start |-> ids[1][1], length |-> Len(ids[1][3]), code |-> 1]>>
        ELSE <<>>

\* core 295-313
diagnosticStep(st, diagnostic, file) ==
    LET noErrors == meta.handbookOptions.noErrors
        ignores == IF noErrors.k = "list" THEN noErrors.items ELSE <<>>
        start == diagnostic.start + file.offset
    IN  IF includes(ignores, NumV(diagnostic.code)) THEN st
        ELSE IF truthy(meta.handbookOptions.noErrorsCutted) /\ isInRanges(start, removals)
        THEN st
        ELSE [st EXCEPT !.errorNodes = Append(@, Node("error", start, diagnostic.length)),
                        !.codes = Append(@, NumV(diagnostic.code))]

\* core 295
RECURSIVE diagnosticLoop(_, _, _)
diagnosticLoop(st, diagnostics, file) ==
    IF diagnostics = <<>> THEN st
    ELSE diagnosticLoop(diagnosticStep(st, Head(diagnostics), file), Tail(diagnostics), file)

\* core 282-315: one file
diagnoseFile(st, file, reported) ==
    IF ~includes(supportedFileTyes, file.extension) THEN st
    ELSE IF meta.handbookOptions.noErrors = BoolV(TRUE) THEN st
    ELSE diagnosticLoop(Call(Call(st, "getSemanticDiagnostics"), "getSyntacticDiagnostics"),
                        diagnosticsOf(file, reported), file)

\* core 282
RECURSIVE diagnoseFiles(_, _, _)
diagnoseFiles(st, files, reported) ==
    IF files = <<>> THEN st
    ELSE diagnoseFiles(diagnoseFile(st, Head(files), reported), Tail(files), reported)

\* validation.ts is not among the sources: a diagnostic whose code no @errors
\* directive names is an error of the sample
validateCodeForErrors(codes, handbookOptions) ==
    IF handbookOptions.errors.k # "list"
    THEN TwoslashError("TypeError", <<HandbookSpelling.errors>>)
    ELSE LET unspecified ==
                 SelectSeq(codes, LAMBDA c : ~includes(handbookOptions.errors.items, c))
         IN  IF unspecified # <<>>
             THEN TwoslashError(
                      "Errors were thrown in the sample, but not included in an error tag",
                      unspecified)
             ELSE NoError

\* core 279-326; no filterNode is given
Diagnose ==
    /\ pc = "diagnose"
    /\ \E reported \in BOOLEAN :
           LET st == diagnoseFiles([errorNodes |-> <<>>, codes |-> <<>>, backend |-> backend],
                                   meta.virtualFiles, reported)
               invalid ==
                   IF ~truthy(meta.handbookOptions.noErrorValidation) /\ st.errorNodes # <<>>
                   THEN validateCodeForErrors(st.codes, meta.handbookOptions)
                   ELSE NoError
           IN  /\ nodes' = nodes \o st.errorNodes
               /\ backend' = st.backend
               /\ IF isError(invalid)
                  THEN error' = invalid /\ pc' = "error"
                  ELSE pc' = "emit" /\ UNCHANGED error
    /\ UNCHANGED <<code, outputCode, removals, eraseVars, resolved, options, meta, quickInfo>>

----------------------------------------------------------------------------
(* core: the emitted output (328-382) *)

endsWith(s, suffix) ==
    Len(s) >= Len(suffix) /\ SubSeq(s, Len(s) - Len(suffix) + 1, Len(s)) = suffix

dropLast(s, n) == SubSeq(s, 1, Len(s) - n)

\* utils 455-459, the function core imports as deExtensionify
deExtensionify(filename) ==
    LET sansDTS == IF endsWith(filename, <<".","d",".","t","s">>)
                   THEN dropLast(filename, 5) \o <<".","t","s">> ELSE filename
        sansMap == IF endsWith(sansDTS, <<".","m","a","p">>)
                   THEN dropLast(sansDTS, 4) ELSE sansDTS
        dots == {k \in 1..(Len(sansMap) - 1) :
                    /\ sansMap[k] = "."
                    /\ \A m \in (k + 1)..Len(sansMap) : sansMap[m] \notin {".", "/"}}
    IN  IF dots = {} THEN sansMap
        ELSE SubSeq(sansMap, 1, (CHOOSE k \in dots : TRUE) - 1)

\* utils 218-220: the loop, on the text alone
RECURSIVE removeTextLoop(_, _)
removeTextLoop(text, rs) ==
    IF rs = <<>> THEN text ELSE removeTextLoop(removeText(text, Head(rs)), Tail(rs))

\* utils 210-241 without records: the text with the ranges cut out
removeCodeRangesText(text, rs) == removeTextLoop(text, removeRangesOrder(rs))

\* core 344-348
emitFilename ==
    IF truthy(meta.handbookOptions.showEmittedFile)
    THEN meta.handbookOptions.showEmittedFile.s
    ELSE IF meta.compilerOptions.jsx = NumV(1)
    THEN <<"i","n","d","e","x",".","j","s","x">>
    ELSE <<"i","n","d","e","x",".","j","s">>

\* core 350: the files whose name is the emitted file's but for the extension
emitSources ==
    SelectSeq(meta.virtualFiles,
              LAMBDA f : deExtensionify(f.filename) = deExtensionify(emitFilename))

\* what the compiler emits, when it emits the file
emittedText == <<"x", NL>>

\* the test at core 330 skipped
emitKeepsNotationsNever == FALSE

\* core 330
emitKeepsNotations == truthy(meta.handbookOptions.keepNotations)

\* core 328-382; the backend emits the file or does not
Emit ==
    /\ pc = "emit"
    /\ IF ~truthy(meta.handbookOptions.showEmit)
       THEN /\ pc' = "finalize"
            /\ UNCHANGED <<outputCode, removals, nodes, meta, error, backend>>
       ELSE IF emitKeepsNotations
       THEN /\ error' = TwoslashError("Option 'showEmit' cannot be used with 'keepNotations'",
                                      <<>>)
            /\ pc' = "error"
            /\ UNCHANGED <<outputCode, removals, nodes, meta, backend>>
       ELSE LET files == splitFiles(removeCodeRangesText(code, removals),
                                    defaultFilename, fsRoot)
                updated == backend \o [k \in 1..Len(files) |-> "updateFile"]
                outFile == truthy(meta.compilerOptions.outFile)
            IN  IF emitSources = <<>> /\ ~outFile
                THEN /\ error' = TwoslashError(
                                     "Could not find source file to show the emit for",
                                     <<emitFilename>>)
                     /\ pc' = "error"
                     /\ backend' = updated
                     /\ UNCHANGED <<outputCode, removals, nodes, meta>>
                ELSE IF outFile /\ meta.virtualFiles = <<>>
                THEN \* meta.virtualFiles[0].filename of no file
                     /\ error' = TwoslashError("TypeError", <<"filename">>)
                     /\ pc' = "error"
                     /\ backend' = updated
                     /\ UNCHANGED <<outputCode, removals, nodes, meta>>
                ELSE \E emitted \in BOOLEAN :
                         /\ backend' = Append(updated, "getEmitOutput")
                         /\ IF emitted
                            THEN /\ outputCode' = emittedText
                                 /\ meta' = [meta EXCEPT
                                                !.extension = getExtension(emitFilename)]
                                 /\ removals' = <<>>
                                 /\ nodes' = <<>>
                                 /\ pc' = "finalize"
                                 /\ UNCHANGED error
                            ELSE /\ error' = TwoslashError(
                                        "Cannot find the output file in the Twoslash VFS",
                                        <<emitFilename>>)
                                 /\ pc' = "error"
                                 /\ UNCHANGED <<outputCode, removals, nodes, meta>>
    /\ UNCHANGED <<code, eraseVars, resolved, options, quickInfo>>

----------------------------------------------------------------------------
(* The run: finalize erasure and position resolution (core.ts 384-400) *)

\* core 384-385 -> utils 214-217
BeginRemove ==
    /\ pc = "finalize"
    /\ IF truthy(meta.handbookOptions.keepNotations)
       THEN /\ pc' = "resolve"
            /\ UNCHANGED eraseVars
       ELSE /\ argRemovals' = removals
            /\ merged' = mergeRanges(removals)
            /\ ranges' = removeRangesOrder(removals)
            /\ ri' = 1
            /\ pc' = "erase"
    /\ UNCHANGED <<runVars, code, outputCode, removals, nodes, resolved>>

\* utils 218-234: the loop body for one range
RemovePass ==
    /\ pc = "erase"
    /\ ri <= Len(ranges)
    /\ outputCode' = removeText(outputCode, ranges[ri])
    /\ nodes' = [k \in 1..Len(nodes) |-> removeNode(nodes[k], ranges[ri])]
    /\ ri' = ri + 1
    /\ UNCHANGED <<runVars, code, removals, argRemovals, merged, ranges, resolved, pc>>

\* utils 236-240, core 386-388
EndRemove ==
    /\ pc = "erase"
    /\ ri > Len(ranges)
    /\ removals' = ranges
    /\ pc' = "resolve"
    /\ UNCHANGED <<runVars, code, outputCode, argRemovals, merged, ranges, ri, nodes, resolved>>

\* core 391-393: pc.indexToPos converts offsets of `code`
converterText == IF outputCode = code THEN code ELSE outputCode

\* core 391-400
Resolve ==
    /\ pc = "resolve"
    /\ resolved' = resolveNodePositions(nodes, converterText)
    /\ pc' = "done"
    /\ UNCHANGED <<runVars, code, outputCode, removals, argRemovals, merged, ranges, ri, nodes>>

----------------------------------------------------------------------------
(* Inputs *)

Abc == <<"a","b","c","d","e","f","g","h","i","j","k","l">>

\* the text of n distinct characters
PlainText(n) == SubSeq(Abc, 1, n)

RangesOf(n) == {<<s, e>> : s \in 0..n, e \in 0..n} \ {r \in (0..n) \X (0..n) : r[1] > r[2]}

NodeValues(n, kinds) ==
    {[type |-> t, start |-> s, length |-> l, orig |-> s] :
        t \in kinds, s \in 0..n, l \in 0..MaxNodeLen}

\* the options of a call twoslasher(code, "ts") without options
PlainOptions ==
    [extension |-> <<"t","s">>,
     compilerOptions |-> <<>>,
     handbookOptions |-> <<>>,
     customTags |-> <<>>,
     shouldGetHoverInfo |-> Undefined,
     positionQueries |-> Undefined,
     positionCompletions |-> Undefined,
     positionHighlights |-> Undefined]

\* a run of such a call, past its scan
PlainRun ==
    /\ options = PlainOptions
    /\ meta = newMeta(<<"t","s">>)
    /\ error = NoError
    /\ backend = <<"getEnv">>
    /\ quickInfo = {}

InitErase(texts) ==
    /\ code \in texts
    /\ outputCode = code
    /\ argRemovals = <<>>
    /\ merged = <<>>
    /\ ranges = <<>>
    /\ ri = 1
    /\ resolved = <<>>
    /\ pc = "finalize"
    /\ PlainRun

NextErase == BeginRemove \/ RemovePass \/ EndRemove \/ Resolve

\* every record of the text once, in ascending order of start
RECURSIVE SetToSeq(_)
SetToSeq(S) ==
    IF S = {} THEN <<>>
    ELSE LET x == CHOOSE y \in S : \A z \in S :
                      \/ y.start < z.start
                      \/ y.start = z.start /\ y.length <= z.length
         IN  <<x>> \o SetToSeq(S \ {x})

AllNodes(n) == SetToSeq(NodeValues(n, {"hover"}))

NodeLists(text) ==
    LET n == Len(text)
    IN  {<<>>, AllNodes(n), Reverse(AllNodes(n))}

RemovalLists(text) == SeqsUpTo(RangesOf(Len(text) + 1), MaxRanges)

SingleRemoval(text) == {<<r>> : r \in RangesOf(Len(text) + 1)}

\* removeCodeRanges and the resolution that follows it, on any text, removal
\* list and record list
InitRemove ==
    /\ InitErase({PlainText(n) : n \in 0..MaxLen})
    /\ removals \in RemovalLists(code)
    /\ nodes \in NodeLists(code)

SpecRemove == InitRemove /\ [][NextErase]_vars

ExampleText == <<"a","b","c","d","e","f","g","h","i","j">>

\* removeCodeRanges with one range, on the text "abcdefghij"
InitSingle ==
    /\ InitErase({ExampleText})
    /\ removals \in SingleRemoval(code)
    /\ nodes \in NodeLists(code)

SpecSingle == InitSingle /\ [][NextErase]_vars

\* removeCodeRanges on records of every length up to MaxRecordLen at every
\* offset of the text
LongNodes(n) ==
    {[type |-> "hover", start |-> s, length |-> l, orig |-> s] :
        s \in 0..n, l \in 0..MaxRecordLen}

InitInvalidate ==
    /\ InitErase({PlainText(n) : n \in 1..MaxLen})
    /\ removals \in RemovalLists(code)
    /\ nodes = SetToSeq(LongNodes(Len(code)))

SpecInvalidate == InitInvalidate /\ [][NextErase]_vars

\* resolveNodePositions on any short record list, invalidated records included
ResolveTexts == {SubSeq(<<"a", NL, NL, "b", "c", NL>>, 1, n) : n \in 0..MaxLen}

ResolveNodes(text) ==
    SeqsUpTo({[type |-> t, start |-> s, length |-> 0, orig |-> s] :
                 t \in Kinds, s \in -1..Len(text)}, MaxResNodes)

InitResolve ==
    /\ outputCode \in ResolveTexts
    /\ code \in {outputCode, <<NL>> \o outputCode}
    /\ nodes \in ResolveNodes(outputCode)
    /\ removals = <<>>
    /\ argRemovals = <<>>
    /\ merged = <<>>
    /\ ranges = <<>>
    /\ ri = 1
    /\ resolved = <<>>
    /\ pc = "resolve"
    /\ PlainRun

SpecResolve == InitResolve /\ [][Resolve]_vars

----------------------------------------------------------------------------
(* Texts made of whole lines *)

RECURSIVE joinLines(_)
joinLines(ls) ==
    IF ls = <<>> THEN <<>>
    ELSE IF Len(ls) = 1 THEN ls[1]
    ELSE Head(ls) \o <<NL>> \o joinLines(Tail(ls))

\* the texts of up to n lines of a menu, with and without a last line break
TextsOf(menu, n) ==
    {joinLines(ls) \o tail : ls \in SeqsUpTo(menu, n), tail \in {<<>>, <<NL>>}}

Comment(token) == tokSlashes \o <<" ">> \o token

CutMenu ==
    {<<"a","b">>, Comment(CutSpelling.start), Comment(CutSpelling.end), tokSlashes \o CutSpelling.end,
     Comment(CutSpelling.cut), Comment(CutSpelling.after)}

\* findCutNotations on texts of code lines and cut markers, at core 126
InitCut ==
    /\ code \in TextsOf(CutMenu, MaxCutLines)
    /\ outputCode = code
    /\ removals = <<>>
    /\ nodes = <<>>
    /\ argRemovals = <<>>
    /\ merged = <<>>
    /\ ranges = <<>>
    /\ ri = 1
    /\ resolved = <<>>
    /\ pc = "cuts"
    /\ PlainRun

SpecCut == InitCut /\ [][Cuts]_vars

----------------------------------------------------------------------------
(* Whole runs of twoslasher(code, extension, options) *)

Next ==
    \/ Start
    \/ Flags
    \/ GetEnv
    \/ Cuts
    \/ Markers
    \/ Split
    \/ Populate
    \/ Diagnose
    \/ Emit
    \/ BeginRemove
    \/ RemovePass
    \/ EndRemove
    \/ Resolve

\* the texts of up to MaxLines lines of a menu
RunTexts(menu) == {joinLines(ls) : ls \in SeqsUpTo(menu, MaxLines)}

Directive(name) == Comment(<<"@">> \o name)

DirectiveValue(name, value) == Comment(<<"@">> \o name \o <<":", " ">> \o value)

tokFoo == <<"f","o","o">>
tokLog == <<"l","o","g">>
CodeLine == <<"a","b">>

\* the handbook options a caller sets
Handbook(names) == [h \in names |-> BoolV(TRUE)]

\* the meta of a run that has not built it yet
NoMeta ==
    [extension |-> <<>>,
     compilerOptions |-> defaultCompilerOptions,
     handbookOptions |-> defaultHandbookOptions,
     flagNotations |-> <<>>,
     virtualFiles |-> <<>>,
     positionQueries |-> <<>>,
     positionCompletions |-> <<>>,
     positionHighlights |-> <<>>]

InitRun(texts, optionSet) ==
    /\ code \in texts
    /\ outputCode = code
    /\ removals = <<>>
    /\ nodes = <<>>
    /\ argRemovals = <<>>
    /\ merged = <<>>
    /\ ranges = <<>>
    /\ ri = 1
    /\ resolved = <<>>
    /\ pc = "start"
    /\ options \in optionSet
    /\ meta = NoMeta
    /\ error = NoError
    /\ backend = <<>>
    /\ quickInfo = {}

\* runs over directives of every classification, with and without validation
FlagMenu ==
    {CodeLine, Directive(tokFoo), DirectiveValue(tokLog, <<"x">>),
     DirectiveValue(CompilerSpelling.jsx, <<"z","z">>),
     Directive(HandbookSpelling.noErrorValidation)}

FlagOptions ==
    {[PlainOptions EXCEPT !.extension = e, !.customTags = c, !.handbookOptions = h] :
        e \in {<<"t","s">>, <<"z","z">>},
        c \in {<<>>, <<tokLog>>},
        h \in {<<>>, Handbook({"noErrorValidation"})}}

InitFlagRun == InitRun(RunTexts(FlagMenu), FlagOptions)

SpecFlagRun == InitFlagRun /\ [][Next]_vars

\* runs that ask for the emitted output, for the notations, for both
EmitMenu ==
    {CodeLine, Comment(CutSpelling.cut), Directive(HandbookSpelling.showEmit),
     Directive(HandbookSpelling.keepNotations)}

EmitOptions ==
    {[PlainOptions EXCEPT !.handbookOptions = Handbook(names)] :
        names \in {{}, {"showEmit"}, {"keepNotations"}, {"showEmit", "keepNotations"}}}

InitEmitRun == InitRun(RunTexts(EmitMenu), EmitOptions)

SpecEmitRun == InitEmitRun /\ [][Next]_vars

\* runs over code between directives and cuts
HoverMenu ==
    {CodeLine, DirectiveValue(CompilerSpelling.jsx, <<"r","e","a","c","t">>),
     Comment(CutSpelling.cut), Comment(CutSpelling.after), Directive(HandbookSpelling.noStaticSemanticInfo)}

HoverOptions ==
    {[PlainOptions EXCEPT !.shouldGetHoverInfo = p] :
        p \in {Undefined, [k |-> "function", rejects |-> {CodeLine}]}}

InitHoverRun == InitRun(RunTexts(HoverMenu), HoverOptions)

SpecHoverRun == InitHoverRun /\ [][Next]_vars

\* runs over position markers: below code, below a cut, in a file that is no
\* source file, with a label
tokMarkdown == <<"a",".","m","d">>

MarkerMenu ==
    {CodeLine, tokSlashes \o <<"^","?">>, tokSlashes \o <<"^","|">>,
     tokSlashes \o <<"^","^">>, tokSlashes \o <<"^","^"," ","^">>,
     Comment(CutSpelling.cut), Comment(tokFilenameTag \o tokMarkdown)}

MarkerTexts == {joinLines(ls) : ls \in SeqsUpTo(MarkerMenu, MaxMarkerLines)}

MarkerOptions ==
    {[PlainOptions EXCEPT !.handbookOptions = Handbook(names)] :
        names \in {{}, {"noErrorValidation"}, {"showEmit"}}}

InitMarkerRun == InitRun(MarkerTexts, MarkerOptions)

SpecMarkerRun == InitMarkerRun /\ [][Next]_vars

\* the entries of the caller's three marker lists
callerTargets ==
    Len(orEmpty(options.positionQueries)) + Len(orEmpty(options.positionCompletions))
        + Len(orEmpty(options.positionHighlights))

\* core 47-51: the instance is called again with the same code, extension and
\* options object once a call has returned or thrown
Invoke ==
    /\ pc \in {"done", "error"}
    /\ callerTargets < MaxStaleTargets
    /\ pc' = "start"
    /\ outputCode' = code
    /\ removals' = <<>>
    /\ nodes' = <<>>
    /\ argRemovals' = <<>>
    /\ merged' = <<>>
    /\ ranges' = <<>>
    /\ ri' = 1
    /\ resolved' = <<>>
    /\ meta' = NoMeta
    /\ error' = NoError
    /\ backend' = <<>>
    /\ quickInfo' = {}
    /\ UNCHANGED <<code, options>>

NextReuse == Next \/ Invoke

\* the caller passes three lists of its own, empty, in the options object
ReuseOptions ==
    {[PlainOptions EXCEPT !.positionQueries = ListV(<<>>),
                          !.positionCompletions = ListV(<<>>),
                          !.positionHighlights = ListV(<<>>)]}

InitReuseRun == InitRun(MarkerTexts, ReuseOptions)

SpecReuseRun == InitReuseRun /\ [][NextReuse]_vars

\* splitFiles at core 131, on texts of code lines, filename directives with
\* and without the blank, one naming the default file, and a directive whose
\* blank is the line break
SplitMenu ==
    {CodeLine, <<>>, Comment(tokFilenameTag \o tokMarkdown),
     tokSlashes \o tokFilenameTag \o <<"i","n","d","e","x",".","t","s">>,
     tokSlashes, tokFilenameTag \o <<"b",".","t","s"," ">>}

InitSplit ==
    /\ code \in TextsOf(SplitMenu, MaxSplitLines)
    /\ outputCode = code
    /\ removals = <<>>
    /\ nodes = <<>>
    /\ argRemovals = <<>>
    /\ merged = <<>>
    /\ ranges = <<>>
    /\ ri = 1
    /\ resolved = <<>>
    /\ pc = "split"
    /\ PlainRun

SpecSplit == InitSplit /\ [][Split]_vars

----------------------------------------------------------------------------
(* Claims *)

\* offsets covered by the half-open ranges of a list
Covered(rs) == UNION {rs[k][1]..(rs[k][2] - 1) : k \in 1..Len(rs)}

SpanOf(orig, length) == orig..(orig + length - 1)

InResolved(node) ==
    \E j \in 1..Len(resolved) :
        /\ resolved[j].type = node.type
        /\ resolved[j].orig = node.orig
        /\ resolved[j].length = node.length

\* C1: after finalize erasure every record of the result had a span that
\* overlaps no removed range, starts at its original start minus the length
\* removed before it and spans the same text as before; every record whose
\* span overlaps a removed range is absent from the result.
C1_ErasureKeepsPositions ==
    pc = "done" =>
        LET removed == Covered(argRemovals)
        IN  /\ \A j \in 1..Len(resolved) :
                   LET r == resolved[j]
                   IN  /\ r.start >= 0
                       /\ SpanOf(r.orig, r.length) \cap removed = {}
                       /\ r.start = r.orig - Cardinality({i \in removed : i < r.orig})
                       /\ slice(outputCode, r.start, r.start + r.length)
                              = slice(code, r.orig, r.orig + r.length)
            /\ \A k \in 1..Len(nodes) :
                   SpanOf(nodes[k].orig, nodes[k].length) \cap removed # {}
                       => ~InResolved(nodes[k])

C1_Witness ==
    /\ pc = "done"
    /\ Len(argRemovals) = 2
    /\ Len(merged) = 2
    /\ \E j \in 1..Len(resolved) :
           resolved[j].length > 0 /\ resolved[j].start <= resolved[j].orig - 2
    /\ \E k \in 1..Len(nodes) : nodes[k].length > 0 /\ nodes[k].start = -1

\* C2: removing one range [s, e) gives T[0..s) + T[e..] and leaves a record
\* ending at or before s alone, invalidates one starting before e, and moves
\* any other back by e - s; on "abcdefghij" and [2, 5) the text becomes
\* "abfghij", the record (6, 1) moves to 3 and the record (3, 1) is invalidated.
C2_SingleRange ==
    (pc \in {"resolve", "done"} /\ Len(argRemovals) = 1) =>
        LET s == argRemovals[1][1]
            e == argRemovals[1][2]
        IN  /\ outputCode = slice(code, 0, s) \o slice(code, e, Len(code))
            /\ \A k \in 1..Len(nodes) :
                   LET n == nodes[k]
                   IN  nodes[k].start =
                           IF n.orig + n.length <= s THEN n.orig
                           ELSE IF n.orig < e THEN -1
                           ELSE n.orig - (e - s)
            /\ (code = ExampleText /\ s = 2 /\ e = 5) =>
                   /\ outputCode = <<"a","b","f","g","h","i","j">>
                   /\ \A k \in 1..Len(nodes) :
                          /\ (nodes[k].orig = 6 /\ nodes[k].length = 1) => nodes[k].start = 3
                          /\ (nodes[k].orig = 3 /\ nodes[k].length = 1) => nodes[k].start = -1

C2_Witness ==
    /\ pc = "done"
    /\ code = ExampleText
    /\ argRemovals = << <<2, 5>> >>
    /\ \E k \in 1..Len(nodes) : nodes[k].orig = 6 /\ nodes[k].length = 1
    /\ \E k \in 1..Len(nodes) : nodes[k].orig = 3 /\ nodes[k].length = 1
    /\ \E k \in 1..Len(nodes) : nodes[k].orig = 1 /\ nodes[k].length = 1

\* C3: the ranges mergeRanges returns are sorted by start, each ends before
\* the next starts, and they cover the offsets its input covers.
C3_MergeDisjointCover ==
    pc # "finalize" =>
        /\ \A k \in 1..(Len(merged) - 1) :
               /\ merged[k][1] <= merged[k + 1][1]
               /\ merged[k][2] < merged[k + 1][1]
        /\ Covered(merged) = Covered(argRemovals)

C3_Witness ==
    /\ pc = "erase"
    /\ Len(argRemovals) = 2
    /\ argRemovals[2][2] = argRemovals[1][1]
    /\ argRemovals[2][1] < argRemovals[2][2]
    /\ argRemovals[1][1] < argRemovals[1][2]
    /\ Len(merged) = 1

\* C4: posToIndex undoes indexToPos on every offset of the text, and
\* indexToPos undoes posToIndex on every position of the text.
C4_ConverterInverse ==
    LET valid == {indexToPos(outputCode, i) : i \in 0..(Len(outputCode) - 1)}
    IN  /\ \A i \in 0..(Len(outputCode) - 1) :
               LET p == indexToPos(outputCode, i)
               IN  posToIndex(outputCode, p.line, p.character) = i
        /\ \A p \in valid :
               indexToPos(outputCode, posToIndex(outputCode, p.line, p.character)) = p

KindOrder == <<"completion", "error", "highlight", "hover", "query", "tag">>

kindRank(t) == CHOOSE k \in 1..Len(KindOrder) : KindOrder[k] = t

\* line and column of an offset inside the text, counted from its line breaks
LineBreaksBefore(text, i) == {k \in 1..i : text[k] = NL}

LineOf(text, i) == Cardinality(LineBreaksBefore(text, i))

ColumnOf(text, i) ==
    LET breaks == LineBreaksBefore(text, i)
    IN  IF breaks = {} THEN i
        ELSE i - (CHOOSE k \in breaks : \A m \in breaks : m <= k)

\* C5: the returned list holds no invalidated record, is sorted by start,
\* orders records of equal start by kind name, and gives each record the
\* line and character of its start in the output text.
C5_ResolvedSorted ==
    pc = "done" =>
        /\ \A j \in 1..Len(resolved) : resolved[j].start >= 0
        /\ \A j \in 1..(Len(resolved) - 1) :
               /\ resolved[j].start <= resolved[j + 1].start
               /\ resolved[j].start = resolved[j + 1].start
                      => kindRank(resolved[j].type) <= kindRank(resolved[j + 1].type)
        /\ \A j \in 1..Len(resolved) :
               LET r == resolved[j]
                   p == indexToPos(outputCode, r.start)
               IN  /\ r.line = p.line
                   /\ r.character = p.character
                   /\ r.start < Len(outputCode) =>
                          /\ r.line = LineOf(outputCode, r.start)
                          /\ r.character = ColumnOf(outputCode, r.start)

C5_Witness ==
    /\ pc = "done"
    /\ Len(nodes) = 2
    /\ Len(resolved) = 2
    /\ nodes[1].start = nodes[2].start
    /\ kindRank(nodes[1].type) > kindRank(nodes[2].type)
    /\ resolved[1].line >= 1
    /\ code # outputCode

\* the lines of a text and the offset of each, counted from its line breaks
TextLines(text) == split(text, NL)

RECURSIVE LineOffset(_, _)
LineOffset(ls, k) == IF k <= 1 THEN 0 ELSE LineOffset(ls, k - 1) + Len(ls[k - 1]) + 1

\* the numbers of the lines that are a given marker, in order
MarkerLines(text, spellings) ==
    ascending({k \in 1..Len(TextLines(text)) : TextLines(text)[k] \in spellings})

CutStartLines(text) == MarkerLines(text, {Comment(CutSpelling.start), tokSlashes \o CutSpelling.start})
CutEndLines(text) == MarkerLines(text, {Comment(CutSpelling.end), tokSlashes \o CutSpelling.end})

\* C6: findCutNotations raises "Mismatched cut markers" when the cut-starts
\* and cut-ends differ in number and when the i-th cut-start lies after the
\* i-th cut-end; otherwise it raises nothing and returns, for each pair, the
\* range from the cut-start to the end of the cut-end's line.
C6_CutMarkers ==
    pc # "cuts" =>
        LET ls == TextLines(code)
            starts == CutStartLines(code)
            ends == CutEndLines(code)
            n == Len(starts)
            mismatched ==
                \/ n # Len(ends)
                \/ \E i \in 1..n : LineOffset(ls, starts[i]) > LineOffset(ls, ends[i])
        IN  IF mismatched
            THEN pc = "error" /\ error.title = "Mismatched cut markers"
            ELSE /\ pc = "markers"
                 /\ error = NoError
                 /\ Len(removals) >= n
                 /\ \A i \in 1..n :
                        removals[Len(removals) - n + i]
                            = <<LineOffset(ls, starts[i]),
                                LineOffset(ls, ends[i]) + Len(ls[ends[i]]) + 1>>

C6_Witness ==
    /\ pc = "error"
    /\ Len(CutStartLines(code)) = 2
    /\ Len(CutEndLines(code)) = 2
    /\ CutStartLines(code)[1] < CutEndLines(code)[1]

C6_WitnessPairs ==
    /\ pc = "markers"
    /\ Len(CutStartLines(code)) = 2
    /\ Len(removals) = 2

----------------------------------------------------------------------------
(* Configuration directives of a text, read line by line *)

\* the numbers of the lines that are a configuration directive (@filename is none)
DirectiveLines(text) ==
    ascending({k \in 1..Len(TextLines(text)) :
        LET line == TextLines(text)[k]
        IN  /\ matchesConfigBoolean(line) \/ matchesConfigValue(line)
            /\ configName(line) # tokFilename})

DirectiveName(text, k) == configName(TextLines(text)[k])

\* [start, end) of the directive of line k, the end past its line break
DirectiveSpan(text, k) ==
    <<LineOffset(TextLines(text), k),
      LineOffset(TextLines(text), k) + Len(TextLines(text)[k]) + 1>>

\* a name that is no custom tag, no compiler option and no behavior option
IsUnknownName(name) ==
    /\ \A k \in 1..Len(options.customTags) : options.customTags[k] # name
    /\ \A k \in 1..Len(tsOptionDeclarations) :
           toLowerCase(tsOptionDeclarations[k].name) # toLowerCase(name)
    /\ \A h \in HandbookNames : HandbookSpelling[h] # name

UnknownLines(text) ==
    SelectSeq(DirectiveLines(text), LAMBDA k : IsUnknownName(DirectiveName(text, k)))

Count(list, x) == Cardinality({k \in 1..Len(list) : list[k] = x})

\* the value of a behavior option once the inline flags are applied: the last
\* directive of that name, else what the caller passed, else the default
InEffect(h) ==
    LET inline == SelectSeq(flagCalls(code), LAMBDA c : c.name = HandbookSpelling[h])
    IN  IF inline # <<>> /\ ~includes(options.customTags, HandbookSpelling[h])
        THEN truthy(handbookValue(HandbookSpelling[h], inline[Len(inline)].value))
        ELSE IF h \in DOMAIN options.handbookOptions
        THEN truthy(options.handbookOptions[h])
        ELSE truthy(defaultHandbookOptions[h])

Terminated == pc \in {"done", "error"}

UnknownFlagTitle == "Unknown inline compiler flags"

ListsUnknownNames ==
    /\ Len(error.detail) = Len(UnknownLines(code))
    /\ \A k \in 1..Len(UnknownLines(code)) :
           LET name == DirectiveName(code, UnknownLines(code)[k])
           IN  Count(error.detail, name)
                   = Count([m \in 1..Len(UnknownLines(code)) |->
                               DirectiveName(code, UnknownLines(code)[m])], name)

\* C7 as stated: with validation enabled, a run over a text with an unknown
\* directive ends with the UnknownFlag error listing exactly the unknown
\* names; with validation disabled no UnknownFlag error is raised.
C7_UnknownFlagAlways ==
    Terminated =>
        IF ~InEffect("noErrorValidation") /\ UnknownLines(code) # <<>>
        THEN pc = "error" /\ error.title = UnknownFlagTitle /\ ListsUnknownNames
        ELSE error.title # UnknownFlagTitle

\* C7 amended: with validation enabled, a run over a text with an unknown
\* directive always fails; when its extension is accepted and no directive
\* fails to parse, it fails with the UnknownFlag error listing every unknown
\* name and no other.  Without an unknown directive, or with validation
\* disabled, no UnknownFlag error is raised.
C7_UnknownFlagBatched ==
    Terminated =>
        IF ~InEffect("noErrorValidation") /\ UnknownLines(code) # <<>>
        THEN /\ pc = "error"
             /\ (/\ options.extension \in DOMAIN extensionMap
                 /\ ~isError(findFlagNotations(code, options.customTags,
                                               tsOptionDeclarations).error))
                    => error.title = UnknownFlagTitle /\ ListsUnknownNames
        ELSE error.title # UnknownFlagTitle

C7_Witness ==
    /\ pc = "error"
    /\ error.title = UnknownFlagTitle
    /\ Len(error.detail) = 2
    /\ error.detail[1] # error.detail[2]

----------------------------------------------------------------------------

IncompatibleTitle == "Option 'showEmit' cannot be used with 'keepNotations'"

BothInEffect == InEffect("showEmit") /\ InEffect("keepNotations")

EarlierTitles ==
    {"Unknown TypeScript extension given to Twoslash", UnknownFlagTitle,
     "Invalid inline compiler value", "TypeError", "Mismatched cut markers",
     "Errors were thrown in the sample, but not included in an error tag"}

----------------------------------------------------------------------------

AfterScan == pc \in {"split", "files", "diagnose", "emit"}

InRemovals(r) == \E k \in 1..Len(removals) : removals[k] = r

----------------------------------------------------------------------------

\* index lies in a range taken as half-open
InsideHalfOpen(index, rs) == \E k \in 1..Len(rs) : rs[k][1] <= index /\ index < rs[k][2]

HasHover(start) == \E k \in 1..Len(nodes) : nodes[k].type = "hover" /\ nodes[k].start = start

\* the identifiers of the supported files, by start and text
Identifiers ==
    UNION {{[start |-> i[1], text |-> i[3]] :
               i \in {getIdentifierTextSpans(f.content, f.offset)[k] :
                         k \in 1..Len(getIdentifierTextSpans(f.content, f.offset))}} :
           f \in {meta.virtualFiles[k] :
                     k \in {m \in 1..Len(meta.virtualFiles) : isSourceFile(meta.virtualFiles[m])}}}

\* C10: after Populate without showEmit and noStaticSemanticInfo, every
\* identifier whose start is outside every removal range [start, end), which
\* the predicate accepts and the backend has hover info for, has a hover
\* record at its start, and an identifier whose start is inside a removal
\* range has none.
C10_HoverOutsideRemovals ==
    (/\ pc = "diagnose"
     /\ ~truthy(meta.handbookOptions.showEmit)
     /\ ~truthy(meta.handbookOptions.noStaticSemanticInfo)) =>
        \A i \in Identifiers :
            IF InsideHalfOpen(i.start, removals) THEN ~HasHover(i.start)
            ELSE (shouldGetHoverInfo(i.text) /\ i.start \in quickInfo) => HasHover(i.start)

----------------------------------------------------------------------------
(* Position markers and their records *)

MarkerTitles ==
    {"Invalid quick info query", "Invalid highlight query", "Invalid completion query"}

\* the file loop is over
Populated == pc \notin {"start", "flags", "env", "cuts", "markers", "split", "files"}

HasRecord(type, start) ==
    \E k \in 1..Len(nodes) : nodes[k].type = type /\ nodes[k].orig = start

HasHighlight(highlight) ==
    \E k \in 1..Len(nodes) :
        /\ nodes[k].type = "highlight"
        /\ areRangesIntersecting(<<nodes[k].orig, nodes[k].orig + nodes[k].length>>, highlight)

InSourceFile(pos) ==
    \E k \in 1..Len(meta.virtualFiles) :
        isSourceFile(meta.virtualFiles[k]) /\ isInFile(meta.virtualFiles[k], pos)

Targets(list) == {list[k] : k \in 1..Len(list)}

C11_WitnessCompletion ==
    /\ pc = "done"
    /\ \E c \in Targets(meta.positionCompletions) : HasRecord("completion", c)

\* a run that ends with the error of a query the backend has no answer for
C11_WitnessError ==
    /\ pc = "error"
    /\ error.title = "Invalid quick info query"
    /\ meta.positionQueries # <<>>

----------------------------------------------------------------------------
(* The run state of one invocation *)

\* the marker lines of the text with the given sigil
MarkerLinesOf(text, type) ==
    {p \in matchesOf(text, "reAnnonateMarkers") : markerParts(lineAt(text, p))[1].type = type}

MarkersScanned == pc \notin {"start", "flags", "env", "cuts", "markers"}

\* C12: with a caller that passes empty marker lists, the caller's lists stay
\* empty, and the target lists an invocation works with hold one entry for
\* each marker of its own text, whatever was run before on the same options.
C12_RunStateOwned ==
    /\ options.positionQueries = ListV(<<>>)
    /\ options.positionCompletions = ListV(<<>>)
    /\ options.positionHighlights = ListV(<<>>)
    /\ MarkersScanned =>
           /\ Len(meta.positionQueries) = Cardinality(MarkerLinesOf(code, "?"))
           /\ Len(meta.positionCompletions) = Cardinality(MarkerLinesOf(code, "|"))
           /\ Len(meta.positionHighlights) = Cardinality(MarkerLinesOf(code, "^^"))

----------------------------------------------------------------------------
(* The virtual files of a text *)

RECURSIVE Concat(_)
Concat(parts) == IF parts = <<>> THEN <<>> ELSE Head(parts) \o Concat(Tail(parts))

\* a line begins at p with "//", at most one blank (a space or the line
\* break) and "@filename: ", and the rest of that line, trimmed, is the name
FilenameDirectiveAt(text, p, name) ==
    /\ p = 0 \/ text[p] = NL
    /\ \E blank \in {<<>>, <<" ">>, <<NL>>} :
           LET opening == tokSlashes \o blank \o tokFilenameTag
           IN  /\ startsWith(dropChars(text, p), opening)
               /\ lineAt(text, p + Len(opening)) # <<>>
               /\ trimEnd(lineAt(text, p + Len(opening))) = name

\* C13: the virtual files of a text are non-empty pieces of it, each at its
\* offset, each beginning where the one before ends, the first at offset 0,
\* together the whole text; every file after the first begins at a filename
\* directive and carries its name.
C13_SplitPartitions ==
    pc = "files" =>
        LET files == meta.virtualFiles
        IN  /\ \A k \in 1..Len(files) :
                   /\ files[k].content # <<>>
                   /\ files[k].offset >= 0
                   /\ files[k].offset + Len(files[k].content) <= Len(code)
                   /\ files[k].content =
                          SubSeq(code, files[k].offset + 1,
                                 files[k].offset + Len(files[k].content))
            /\ \A k \in 1..(Len(files) - 1) :
                   /\ files[k].offset < files[k + 1].offset
                   /\ files[k].offset + Len(files[k].content) = files[k + 1].offset
            /\ files # <<>> => files[1].offset = 0
            /\ Concat([k \in 1..Len(files) |-> files[k].content]) = code
            /\ \A k \in 2..Len(files) :
                   FilenameDirectiveAt(code, files[k].offset, files[k].filename)

\* a text split in three, its first file before the first directive
C13_Witness ==
    /\ pc = "files"
    /\ Len(meta.virtualFiles) = 3
    /\ ~FilenameDirectiveAt(code, 0, meta.virtualFiles[1].filename)

\* a text that opens with a directive: no empty file is made for what precedes
C13_WitnessOpening ==
    /\ pc = "files"
    /\ Len(meta.virtualFiles) = 2
    /\ FilenameDirectiveAt(code, 0, meta.virtualFiles[1].filename)

----------------------------------------------------------------------------
(* The targets of the position markers *)

\* the lines of the text, from the second on, that are position markers
MarkerLineNumbers(text) ==
    {k \in 2..Len(TextLines(text)) : matchesMarker(TextLines(text)[k])}

\* the column of the first "^" of a marker line
CaretColumn(line) == indexOf(line, "^")

\* the target of the marker on line k: its column on the line above
TargetOf(text, k) == LineOffset(TextLines(text), k - 1) + CaretColumn(TextLines(text)[k])

\* the "^" that stand side by side from the first one on
ContiguousCarets(line) == caretRun(dropChars(line, CaretColumn(line)))

\* C14: once the markers are scanned, a marker on line k records its column on
\* the line above: as a query target for "^?", as a completion target for
\* "^|", as the range of its contiguous "^" for a highlight; and the span of
\* its line is among the removals.
C14_MarkerTargets ==
    pc = "split" =>
        \A k \in MarkerLineNumbers(code) :
            LET line == TextLines(code)[k]
                sigil == line[CaretColumn(line) + 2]
                target == TargetOf(code, k)
                at == LineOffset(TextLines(code), k)
            IN  /\ sigil = "?" => target \in Targets(meta.positionQueries)
                /\ sigil = "|" => target \in Targets(meta.positionCompletions)
                /\ sigil = "^" =>
                       <<target, target + ContiguousCarets(line)>>
                           \in Targets(meta.positionHighlights)
                /\ \E r \in Targets(removals) :
                       r[1] = at /\ r[2] \in {at + Len(line), at + Len(line) + 1}

----------------------------------------------------------------------------
(* Invalidation within removeCodeRanges *)

RangesDescend ==
    \A i \in 1..Len(ranges) : \A j \in (i + 1)..Len(ranges) : ranges[i][1] > ranges[j][1]

\* the pass of one range leaves at -1 every record that is at -1
InvalidStays ==
    (pc = "erase" /\ ri' = ri + 1) =>
        \A k \in 1..Len(nodes) : nodes[k].start = -1 => nodes'[k].start = -1

\* C15: the ranges are passed in strictly descending order of start; a record
\* at -1 is left at -1 by every later pass; and the result holds with
\* start >= 0 no record that a pass has invalidated.
C15_InvalidationPermanent ==
    /\ [](RangesDescend
          /\ (pc = "done" =>
                 /\ \A j \in 1..Len(resolved) : resolved[j].start >= 0
                 /\ \A k \in 1..Len(nodes) :
                        nodes[k].start = -1 => ~InResolved(nodes[k])))
    /\ [][InvalidStays]_vars

\* two passes are done; the first invalidated a record that reaches past the
\* start of the second range, and it is still at -1
C15_Witness ==
    /\ pc = "erase"
    /\ ri = 3
    /\ \E k \in 1..Len(nodes) :
           /\ nodes[k].start = -1
           /\ nodes[k].orig >= ranges[1][1]
           /\ nodes[k].length - 1 > ranges[2][1]

----------------------------------------------------------------------------
(* The ranges the scan appends *)

\* the removal list holds what the scan appended and nothing else
ScanOnly == pc \in {"env", "cuts", "markers", "split", "files", "diagnose"}

ValidSpan(r, text) == 0 <= r[1] /\ r[1] <= r[2] /\ r[2] <= Len(text)

\* C16: every range the scan has appended to the removal list is a span of
\* the text: 0 <= start <= end <= length.
C16_ScannedRangesValid ==
    ScanOnly => \A k \in 1..Len(removals) : ValidSpan(removals[k], code)

----------------------------------------------------------------------------
(* The records of the custom tags *)

\* the lines of the text that are directives of a custom tag
TagLines(text) ==
    {k \in Targets(DirectiveLines(text)) : includes(options.customTags, DirectiveName(text, k))}

\* the records of the result made for the tag directive of line k
TagRecords(text, k) ==
    {j \in 1..Len(resolved) :
        resolved[j].type = "tag" /\ resolved[j].orig = DirectiveSpan(text, k)[2]}

\* where the character at offset p of the text stands once the removals are cut
ErasedOffset(p) == p - Cardinality({i \in Covered(argRemovals) : i < p})

\* C17: in a run that ends without keepNotations and showEmit, every custom-tag
\* directive has exactly one tag record in the result, standing where the
\* directive began in the erased text.
C17_TagSurvives ==
    (pc = "done" /\ ~InEffect("keepNotations") /\ ~InEffect("showEmit")) =>
        \A k \in TagLines(code) :
            /\ Cardinality(TagRecords(code, k)) = 1
            /\ \A j \in TagRecords(code, k) :
                   resolved[j].start = ErasedOffset(DirectiveSpan(code, k)[1])

====
